---- MODULE Spec2Model ----
(***************************************************************************)
(* DeepScene: hide a file in the least-significant bits of an image, with  *)
(* optional compression and password encryption, and recover it.           *)
(*                                                                         *)
(* Bytes are integers 0..255, byte strings are sequences of bytes.  An     *)
(* image is a record [width, height, px] whose px is the row-major         *)
(* sequence of RGBA pixels <<r, g, b, a>>.  The filesystem is a function   *)
(* from paths to entries; a path absent from its domain does not exist.    *)
(***************************************************************************)
EXTENDS Integers, Sequences, FiniteSets, TLC

VARIABLES fs, pc, opts, loc, result, hist

vars == <<fs, pc, opts, loc, result, hist>>

(***************************************************************************)
(* Program constants                                                       *)
(***************************************************************************)
MAX_IMAGE_DIMENSION == 20000
MAX_DATA_LENGTH == 268435456
HEADER_MAGIC == <<68, 80, 83, 78>>
MAX_FILE_SIZE == 268435456
MAX_FILENAME_LENGTH == 255
SALT_LEN == 16
NONCE_LEN == 12
CHECKSUM_LEN == 16
KEY_LEN == 32
HEADER_LEN == 10

\* Bounds of the model
SaltChoices == 2
NonceChoices == 2
MaxFileLen == 6
MaxPayloadLen == 6
MaxCryptoLen == 2
MaxCompressLen == 9

(***************************************************************************)
(* Results: Ok(value) or Err(kind, message)                                *)
(***************************************************************************)
Ok(v) == [ok |-> TRUE, kind |-> "Ok", msg |-> "", val |-> v]
Err(k, m) == [ok |-> FALSE, kind |-> k, msg |-> m, val |-> <<>>]

None == [some |-> FALSE, val |-> <<>>]
Some(v) == [some |-> TRUE, val |-> v]

(***************************************************************************)
(* Bytes and bits                                                          *)
(***************************************************************************)
Pow2(n) == 2 ^ n

\* bit `pos` (0 = least significant) of a byte: (byte >> pos) & 1
BitAt(byte, pos) == (byte \div Pow2(pos)) % 2

\* bitwise exclusive or of two bytes
Xor8(a, b) ==
    LET x(i) == ((BitAt(a, i) + BitAt(b, i)) % 2) * Pow2(i)
    IN  x(0) + x(1) + x(2) + x(3) + x(4) + x(5) + x(6) + x(7)

\* (n as u32).to_be_bytes(): the four low-order bytes of n
U32ToBe(n) ==
    << (n \div Pow2(24)) % 256, (n \div Pow2(16)) % 256, (n \div Pow2(8)) % 256, n % 256 >>

\* u16::to_be_bytes
U16ToBe(n) == << (n % 65536) \div 256, n % 256 >>

\* u32::from_be_bytes / u16::from_be_bytes
U32FromBe(b) == b[1] * Pow2(24) + b[2] * Pow2(16) + b[3] * Pow2(8) + b[4]
U16FromBe(b) == b[1] * 256 + b[2]

\* the slice s[from..to) with 0-based bounds, as Rust writes it
Slice(s, from, to) == [i \in 1..(to - from) |-> s[from + i]]

\* bit k (0-based, most significant bit of each byte first) of a byte string
BitOfBytes(bytes, k) == BitAt(bytes[(k \div 8) + 1], 7 - (k % 8))

\* the byte whose 8 bits, most significant first, are bits[off .. off+7] (0-based)
ByteOfBits(bits, off) ==
    LET b(j) == bits[off + j + 1] * Pow2(7 - j)
    IN  b(0) + b(1) + b(2) + b(3) + b(4) + b(5) + b(6) + b(7)

(***************************************************************************)
(* Paths: [dir, name]; dir = <<>> is the working directory.               *)
(***************************************************************************)
\* the last index k <= i with s[k] = c, 0 if there is none
LastIndexOf(s, c, i) ==
    LET hits == {k \in 1..i : s[k] = c}
    IN  IF hits = {} THEN 0 ELSE CHOOSE k \in hits : \A m \in hits : m <= k

DOT == 46
SLASH == 47

\* index of the dot that separates stem and extension, 0 when there is none
ExtDot(name) ==
    LET d == LastIndexOf(name, DOT, Len(name))
    IN  IF d <= 1 THEN 0 ELSE d

\* Path::extension
Extension(path) ==
    LET d == ExtDot(path.name)
    IN  IF d = 0 THEN None ELSE Some(SubSeq(path.name, d + 1, Len(path.name)))

\* Path::file_stem
FileStem(path) ==
    LET d == ExtDot(path.name)
    IN  IF d = 0 THEN path.name ELSE SubSeq(path.name, 1, d - 1)

PNG == <<112, 110, 103>>
BMP == <<98, 109, 112>>
TIFF == <<116, 105, 102, 102>>
TIF == <<116, 105, 102>>
STEG_PNG == <<95, 115, 116, 101, 103, 46, 112, 110, 103>>

\* Path::with_extension("png")
WithExtensionPng(path) == [dir |-> path.dir, name |-> FileStem(path) \o <<DOT>> \o PNG]

\* ASCII lower-casing of the extension
ToLower(s) == [i \in 1..Len(s) |-> IF s[i] >= 65 /\ s[i] <= 90 THEN s[i] + 32 ELSE s[i]]

is_lossless_format(path) ==
    LET ext == Extension(path)
    IN  ext.some /\ ToLower(ext.val) \in {PNG, BMP, TIFF, TIF}

\* PathBuf::from(name): the part after the last '/' is the file name
PathFromName(name) ==
    LET s == LastIndexOf(name, SLASH, Len(name))
    IN  IF s = 0 THEN [dir |-> <<>>, name |-> name]
        ELSE [dir |-> SubSeq(name, 1, s - 1), name |-> SubSeq(name, s + 1, Len(name))]

(***************************************************************************)
(* Filesystem entries                                                      *)
(***************************************************************************)
ImageFile(img) == [kind |-> "image", img |-> img, data |-> <<>>]
DataFile(bytes) == [kind |-> "data", img |-> <<>>, data |-> bytes]
Directory == [kind |-> "dir", img |-> <<>>, data |-> <<>>]

Exists(f, path) == path \in DOMAIN f
IsFile(f, path) == Exists(f, path) /\ f[path].kind # "dir"
ParentExists(f, path) == path.dir = <<>> \/ ([dir |-> <<>>, name |-> path.dir] \in DOMAIN f)

\* the filesystem after (re)creating `path` with `entry`
Put(f, path, entry) == [p \in (DOMAIN f) \cup {path} |-> IF p = path THEN entry ELSE f[p]]

(***************************************************************************)
(* Steganographic codec (core/steganography.rs)                            *)
(***************************************************************************)
\* image::open: only a file holding an image decodes
OpenImage(f, path) ==
    IF Exists(f, path) /\ f[path].kind = "image" THEN Ok(f[path].img)
    ELSE Err("Image", "Failed to open image")

validate_image(f, path) ==
    IF ~Exists(f, path) THEN Err("Validation", "Input image not found")
    ELSE IF ~IsFile(f, path) THEN Err("Validation", "is not a file")
    ELSE LET img == OpenImage(f, path)
         IN  IF ~img.ok THEN img
             ELSE IF img.val.width = 0 \/ img.val.height = 0
                  THEN Err("Validation", "Image has invalid dimensions")
             ELSE IF img.val.width > MAX_IMAGE_DIMENSION \/ img.val.height > MAX_IMAGE_DIMENSION
                  THEN Err("Validation", "Image dimensions too large")
             ELSE Ok(<<img.val.width, img.val.height>>)

\* the capacity rounded up instead of down
calculate_capacity_RoundUp(width, height) == ((width * height) * 3 + 7) \div 8

calculate_capacity(width, height) == ((width * height) * 3) \div 8

RECURSIVE SumBytes(_, _)
SumBytes(data, n) == IF n = 0 THEN 0 ELSE (SumBytes(data, n - 1) + data[n]) % 65536

\* the checksum taken over the magic alone, the length left out
calculate_header_checksum_MagicOnly(data) ==
    SumBytes(data, IF Len(data) < 4 THEN Len(data) ELSE 4)

\* fold(0u16, |acc, b| acc.wrapping_add(b as u16))
calculate_header_checksum(data) == SumBytes(data, Len(data))

\* the header with the length written least-significant byte first
StegoHeader_LittleEndian(data) ==
    LET be == U32ToBe(Len(data))
        header == HEADER_MAGIC \o <<be[4], be[3], be[2], be[1]>>
        checksum == calculate_header_checksum(header)
    IN  header \o U16ToBe(checksum)

\* the 10-byte header: magic, big-endian length, big-endian checksum
StegoHeader(data) ==
    LET header == HEADER_MAGIC \o U32ToBe(Len(data))
        checksum == calculate_header_checksum(header)
    IN  header \o U16ToBe(checksum)

\* the channel replaced by the bit, its seven higher bits dropped
SetLsb_DropHighBits(value, bit) == bit

\* (pixel[channel] & 0xFE) | bit
SetLsb(value, bit) == (value \div 2) * 2 + bit

\* Walks pixels row-major, channels R,G,B; channel number bit_index takes bit
\* bit_index of header ++ data while bit_index < 8 * len; the rest is left alone.
embed_data(image, data) ==
    LET all_data == StegoHeader(data) \o data
        nbits == Len(all_data) * 8
        NewPixel(i) ==
            [c \in 1..4 |->
                LET bit_index == 3 * (i - 1) + (c - 1)
                IN  IF c <= 3 /\ bit_index < nbits
                    THEN SetLsb(image.px[i][c], BitOfBytes(all_data, bit_index))
                    ELSE image.px[i][c]]
    IN  [width |-> image.width, height |-> image.height,
         px |-> [i \in 1..(image.width * image.height) |-> NewPixel(i)]]

\* RgbaImage::save
SaveImage(f, path, image) == Put(f, path, ImageFile(image))

\* hide_data: the result and the filesystem it leaves
hide_data(f, image_path, data, output_path) ==
    LET dims == validate_image(f, image_path)
    IN  IF ~dims.ok THEN [res |-> dims, fs |-> f]
        ELSE
          LET rgba_img == OpenImage(f, image_path).val
              max_bytes == calculate_capacity(dims.val[1], dims.val[2])
              required_bytes == Len(data) + HEADER_LEN
          IN  IF required_bytes > max_bytes
              THEN [res |-> Err("Validation", "Data too large for image"), fs |-> f]
              ELSE [res |-> Ok(<<>>),
                    fs |-> SaveImage(f, output_path, embed_data(rgba_img, data))]

\* the least-significant bits of the first max_bits colour channels
CollectBits(image, max_bits) ==
    [k \in 1..max_bits |-> image.px[((k - 1) \div 3) + 1][((k - 1) % 3) + 1] % 2]

\* extract_bytes that starts one byte early, at bit 72
extract_bytes_FromChecksum(bits, length) ==
    IF length > 0 /\ 80 + (length - 1) * 8 + 7 >= Len(bits)
    THEN Err("Data", "Unexpected end of data while extracting")
    ELSE Ok([i \in 1..length |-> ByteOfBits(bits, 72 + (i - 1) * 8)])

extract_bytes(bits, length) ==
    \* some bit_pos = 80 + i*8 + j with i < length, j < 8 is >= bits.len()
    IF length > 0 /\ 80 + (length - 1) * 8 + 7 >= Len(bits)
    THEN Err("Data", "Unexpected end of data while extracting")
    ELSE Ok([i \in 1..length |-> ByteOfBits(bits, 80 + (i - 1) * 8)])

\* a > b for the u32 with big-endian bytes a, decided on the top byte first so
\* that no value of 2^31 or more is ever formed
U32Greater(a, b) ==
    \/ a[1] > b \div Pow2(24)
    \/ a[1] = b \div Pow2(24) /\ U32FromBe(a) > b

\* 80 + length * 8 > limit, in bytes: length > floor((limit - 80) / 8)
BitsNeededExceed(length, limit) == length > (limit - 80) \div 8

\* validate_and_extract that looks at the length before the checksum
validate_and_extract_LengthFirst(bits, width, height) ==
    LET header == [i \in 1..10 |-> ByteOfBits(bits, (i - 1) * 8)]
        stored_checksum == U16FromBe(Slice(header, 8, 10))
        computed_checksum == calculate_header_checksum(Slice(header, 0, 8))
        length_bytes == Slice(header, 4, 8)
        data_length == U32FromBe(length_bytes)
        available_bits == width * height * 3
    IN  IF Slice(header, 0, 4) # HEADER_MAGIC
        THEN Err("Data", "No embedded data detected. This image does not appear to contain steganographic content")
        ELSE IF length_bytes = <<0, 0, 0, 0>>
        THEN Err("Data", "No embedded data detected")
        ELSE IF stored_checksum # computed_checksum
        THEN Err("Data", "Data integrity check failed. The embedded data may be corrupted")
        ELSE IF U32Greater(length_bytes, MAX_DATA_LENGTH)
        THEN Err("Data", "Invalid data length detected")
        ELSE IF BitsNeededExceed(data_length, available_bits)
        THEN Err("Data", "Image capacity exceeded")
        ELSE IF BitsNeededExceed(data_length, Len(bits))
        THEN Err("Data", "Cannot extract data")
        ELSE extract_bytes(bits, data_length)

validate_and_extract(bits, width, height) ==
    LET header == [i \in 1..10 |-> ByteOfBits(bits, (i - 1) * 8)]
        stored_checksum == U16FromBe(Slice(header, 8, 10))
        computed_checksum == calculate_header_checksum(Slice(header, 0, 8))
        length_bytes == Slice(header, 4, 8)
        data_length == U32FromBe(length_bytes)
        available_bits == width * height * 3
    IN  IF Slice(header, 0, 4) # HEADER_MAGIC
        THEN Err("Data", "No embedded data detected. This image does not appear to contain steganographic content")
        ELSE IF stored_checksum # computed_checksum
        THEN Err("Data", "Data integrity check failed. The embedded data may be corrupted")
        ELSE IF length_bytes = <<0, 0, 0, 0>>
        THEN Err("Data", "No embedded data detected")
        ELSE IF U32Greater(length_bytes, MAX_DATA_LENGTH)
        THEN Err("Data", "Invalid data length detected")
        ELSE IF BitsNeededExceed(data_length, available_bits)
        THEN Err("Data", "Image capacity exceeded")
        ELSE IF BitsNeededExceed(data_length, Len(bits))
        THEN Err("Data", "Cannot extract data")
        ELSE extract_bytes(bits, data_length)

\* no more bits collected than the header has
MaxBits_HeaderOnly(total_pixels) ==
    IF total_pixels * 3 < 80 THEN total_pixels * 3 ELSE 80

\* (total_pixels * 3).min(80 + MAX_DATA_LENGTH * 8)
MaxBits(total_pixels) ==
    IF BitsNeededExceed(MAX_DATA_LENGTH, total_pixels * 3)
    THEN total_pixels * 3
    ELSE 80 + MAX_DATA_LENGTH * 8

extract_data(f, image_path) ==
    LET dims == validate_image(f, image_path)
    IN  IF ~dims.ok THEN dims
        ELSE
          LET rgba_img == OpenImage(f, image_path).val
              total_pixels == dims.val[1] * dims.val[2]
              max_bits == MaxBits(total_pixels)
              all_bits == CollectBits(rgba_img, max_bits)
          IN  IF Len(all_bits) < 80
              THEN Err("Data", "Image dimensions insufficient for data extraction")
              ELSE validate_and_extract(all_bits, dims.val[1], dims.val[2])

(***************************************************************************)
(* Compression engine (core/compression.rs)                                *)
(*                                                                         *)
(* The DEFLATE coder of the flate2 library is represented by a run-length  *)
(* coder with an end-of-stream marker: a lossless coder whose output size  *)
(* depends on the input's redundancy, and whose decoder rejects a          *)
(* truncated stream and ignores what follows the end marker.               *)
(***************************************************************************)
MAX_RUN == 255

\* the length, from n on and at most MAX_RUN, of the run of data[i] at i
RunLength(data, i, n) ==
    LET Same(m) == \A k \in n..(m - 1) : i + k <= Len(data) /\ data[i + k] = data[i]
    IN  CHOOSE m \in n..MAX_RUN : Same(m) /\ (m = MAX_RUN \/ ~Same(m + 1))

RECURSIVE DeflateRuns(_, _)
DeflateRuns(data, i) ==
    IF i > Len(data) THEN <<>>
    ELSE LET n == RunLength(data, i, 1)
         IN  <<n, data[i]>> \o DeflateRuns(data, i + n)

\* DeflateEncoder::write_all + finish
Deflate(data) == DeflateRuns(data, 1) \o <<0>>

RECURSIVE InflateRuns(_, _)
InflateRuns(bytes, i) ==
    IF i > Len(bytes) THEN Err("Compression", "Failed to decompress data")
    ELSE IF bytes[i] = 0 THEN Ok(<<>>)
    ELSE IF i + 1 > Len(bytes) THEN Err("Compression", "Failed to decompress data")
    ELSE LET rest == InflateRuns(bytes, i + 2)
         IN  IF ~rest.ok THEN rest
             ELSE Ok([k \in 1..bytes[i] |-> bytes[i + 1]] \o rest.val)

\* (original_size as f64 * 0.95) as usize: the product truncated toward zero
Threshold(original_size) == (original_size * 95) \div 100

compress(data) ==
    LET original_size == Len(data)
        compressed == Deflate(data)
        compressed_size == Len(compressed)
        threshold == Threshold(original_size)
    IN  IF compressed_size < threshold
        THEN [data |-> compressed, applied |-> TRUE]
        ELSE [data |-> data, applied |-> FALSE]

\* DeflateDecoder::read_to_end
decompress(data) == InflateRuns(data, 1)

(***************************************************************************)
(* Crypto engine (core/crypto.rs)                                          *)
(*                                                                         *)
(* Argon2, ChaCha20 and BLAKE3 are represented by arithmetic stand-ins     *)
(* that keep what the engine relies on: the key is a function of password  *)
(* and salt, the keystream a function of key, nonce and position, and the  *)
(* cipher is the byte-wise exclusive or with the keystream.                *)
(***************************************************************************)
RECURSIVE WeightedSum(_, _, _)
WeightedSum(s, n, w) ==
    IF n = 0 THEN 0 ELSE (WeightedSum(s, n - 1, w) + s[n] * (2 * ((n * w) % 128) + 1)) % 256

\* Argon2::default().hash_password(password, salt), first 32 bytes
derive_key(password, salt) ==
    Ok([i \in 1..KEY_LEN |->
          (WeightedSum(password, Len(password), i) + 3 * salt[((i - 1) % SALT_LEN) + 1]
             + 7 * i + Len(password)) % 256])

\* ChaCha20 keystream byte at position i (0-based)
KeystreamByte(key, nonce, i) ==
    (5 * key[(i % KEY_LEN) + 1] + 11 * nonce[(i % NONCE_LEN) + 1] + 13 * i + 1) % 256

\* cipher.apply_keystream(buf)
apply_keystream(key, nonce, buf) ==
    [i \in 1..Len(buf) |-> Xor8(buf[i], KeystreamByte(key, nonce, i - 1))]

\* a checksum that reads only the first byte and the length of the data
ContentChecksum_FirstByte(data) ==
    [j \in 1..CHECKSUM_LEN |->
        ((IF Len(data) > 0 THEN data[1] ELSE 0) + 31 * Len(data) + 17 * (j - 1)) % 256]

\* blake3::hash(data).as_bytes()[0..16]
ContentChecksum(data) ==
    [j \in 1..CHECKSUM_LEN |->
        (WeightedSum(data, Len(data), j - 1) + 31 * Len(data) + 17 * (j - 1)) % 256]

\* encrypt with the salt and nonce the random generator hands out; `steps`
\* lists what ran
encrypt(data, password, salt, nonce) ==
    IF Len(password) = 0
    THEN [res |-> Err("Validation", "Encryption password cannot be empty. Please provide a valid password"),
          steps |-> <<>>]
    ELSE
      LET key == derive_key(password, salt)
          data_with_checksum == ContentChecksum(data) \o data
          encrypted == apply_keystream(key.val, nonce, data_with_checksum)
      IN  IF ~key.ok THEN [res |-> key, steps |-> <<"rng", "derive_key">>]
          ELSE [res |-> Ok(salt \o nonce \o encrypted),
                steps |-> <<"rng", "derive_key", "cipher">>]

\* decrypt that returns the tail without comparing the checksums
decrypt_NoVerify(data, password) ==
    IF Len(password) = 0
    THEN [res |-> Err("Validation", "Encryption password cannot be empty. Please provide a valid password"),
          steps |-> <<>>]
    ELSE IF Len(data) < SALT_LEN + NONCE_LEN + CHECKSUM_LEN
    THEN [res |-> Err("Encryption", "Corrupted encrypted data"), steps |-> <<"length">>]
    ELSE
      LET salt == Slice(data, 0, SALT_LEN)
          nonce == Slice(data, SALT_LEN, SALT_LEN + NONCE_LEN)
          encrypted == Slice(data, SALT_LEN + NONCE_LEN, Len(data))
          key == derive_key(password, salt)
          decrypted == apply_keystream(key.val, nonce, encrypted)
      IN  [res |-> Ok(Slice(decrypted, CHECKSUM_LEN, Len(decrypted))),
           steps |-> <<"length", "derive_key", "cipher">>]

\* decrypt that checks the blob length before the password
decrypt_LengthFirst(data, password) ==
    IF Len(data) < SALT_LEN + NONCE_LEN + CHECKSUM_LEN
    THEN [res |-> Err("Encryption", "Corrupted encrypted data"), steps |-> <<"length">>]
    ELSE IF Len(password) = 0
    THEN [res |-> Err("Validation", "Encryption password cannot be empty. Please provide a valid password"),
          steps |-> <<"length">>]
    ELSE decrypt_NoVerify(data, password)

decrypt(data, password) ==
    IF Len(password) = 0
    THEN [res |-> Err("Validation", "Encryption password cannot be empty. Please provide a valid password"),
          steps |-> <<>>]
    ELSE IF Len(data) < SALT_LEN + NONCE_LEN + CHECKSUM_LEN
    THEN [res |-> Err("Encryption", "Corrupted encrypted data"), steps |-> <<"length">>]
    ELSE
      LET salt == Slice(data, 0, SALT_LEN)
          nonce == Slice(data, SALT_LEN, SALT_LEN + NONCE_LEN)
          encrypted == Slice(data, SALT_LEN + NONCE_LEN, Len(data))
          key == derive_key(password, salt)
          decrypted == apply_keystream(key.val, nonce, encrypted)
          stored_checksum == Slice(decrypted, 0, CHECKSUM_LEN)
          actual_data == Slice(decrypted, CHECKSUM_LEN, Len(decrypted))
      IN  IF ~key.ok THEN [res |-> key, steps |-> <<"length", "derive_key">>]
          ELSE IF Len(decrypted) < CHECKSUM_LEN
          THEN [res |-> Err("Encryption", "Authentication failed"),
                steps |-> <<"length", "derive_key", "cipher">>]
          ELSE IF stored_checksum # ContentChecksum(actual_data)
          THEN [res |-> Err("Encryption", "Authentication failed"),
                steps |-> <<"length", "derive_key", "cipher", "verify">>]
          ELSE [res |-> Ok(actual_data),
                steps |-> <<"length", "derive_key", "cipher", "verify">>]

(***************************************************************************)
(* File handler (io/file_handler.rs)                                       *)
(***************************************************************************)
IsCont(b) == b >= 128 /\ b <= 191

\* the number of bytes of the UTF-8 sequence that lead byte b opens, 0 if
\* b opens none
Utf8Width(b) ==
    IF b <= 127 THEN 1
    ELSE IF b >= 194 /\ b <= 223 THEN 2
    ELSE IF b >= 224 /\ b <= 239 THEN 3
    ELSE IF b >= 240 /\ b <= 244 THEN 4
    ELSE 0

\* str::from_utf8 / OsStr::to_str: is s from index i on well-formed UTF-8.
\* Every byte that is not a continuation byte opens a sequence: it is a lead
\* byte, followed by exactly its continuation bytes, within the ranges that
\* exclude overlong forms, surrogates and code points over U+10FFFF.
IsUtf8(s, i) ==
    LET Opens(k) ==
            LET b == s[k]
                n == Utf8Width(b)
            IN  /\ n > 0
                /\ k + n - 1 <= Len(s)
                /\ \A j \in 1..(n - 1) : IsCont(s[k + j])
                /\ (k + n <= Len(s) => ~IsCont(s[k + n]))
                /\ (b = 224 => s[k + 1] >= 160)
                /\ (b = 237 => s[k + 1] <= 159)
                /\ (b = 240 => s[k + 1] >= 144)
                /\ (b = 244 => s[k + 1] <= 143)
    IN  \/ i > Len(s)
        \/ /\ ~IsCont(s[i])
           /\ \A k \in i..Len(s) : ~IsCont(s[k]) => Opens(k)

read_file(f, path) ==
    IF ~Exists(f, path) THEN Err("Validation", "File not found")
    ELSE IF ~IsFile(f, path) THEN Err("Validation", "is not a file")
    ELSE IF ~IsUtf8(path.name, 1) THEN Err("Validation", "Invalid file name")
    ELSE IF Len(path.name) = 0 THEN Err("Validation", "File name cannot be empty")
    ELSE IF Len(path.name) > MAX_FILENAME_LENGTH THEN Err("Validation", "File name too long")
    ELSE LET data == f[path].data
         IN  IF Len(data) = 0 THEN Err("Validation", "File is empty")
             ELSE IF Len(data) > MAX_FILE_SIZE THEN Err("Validation", "File is too large")
             ELSE Ok([name |-> path.name, data |-> data])

validate_output_path(f, path) ==
    IF ~ParentExists(f, path) THEN Err("Validation", "Output directory does not exist")
    ELSE IF Exists(f, path) /\ ~IsFile(f, path)
    THEN Err("Validation", "Output path exists but is not a file")
    ELSE Ok(<<>>)

\* write_file: the result and the filesystem it leaves
write_file(f, path, data) ==
    LET checked == validate_output_path(f, path)
    IN  IF ~checked.ok THEN [res |-> checked, fs |-> f]
        ELSE [res |-> Ok(<<>>), fs |-> Put(f, path, DataFile(data))]

(***************************************************************************)
(* Pipeline orchestrator (processor/mod.rs)                                *)
(*                                                                         *)
(* One run of encode or decode advances stage by stage (pc); a failing     *)
(* stage ends the run with its error (the `?` operator).  loc holds the    *)
(* run's local variables, hist what the properties need to remember: the   *)
(* filesystem at the start of the run, whether decrypt was called, and     *)
(* the outcome of the encode run that preceded a decode.                   *)
(***************************************************************************)
LocInit ==
    [working_image_path |-> None, converted_to_png |-> FALSE,
     file_data |-> None, payload |-> <<>>, compression_applied |-> FALSE,
     final_payload |-> <<>>, output_path |-> None,
     embedded_data |-> <<>>, decompressed_data |-> <<>>,
     file_name |-> None, encryption_flag |-> None, encrypted_data |-> <<>>,
     content |-> <<>>, steps |-> <<>>]

NoEncode ==
    [done |-> FALSE, ok |-> FALSE, file |-> None, output_path |-> None,
     password |-> None, loc |-> LocInit, fsStart |-> <<>>]

HistInit == [fsStart |-> <<>>, decryptCalled |-> FALSE, enc |-> NoEncode]

NoOpts ==
    [cmd |-> "none", image_path |-> None, file_path |-> None,
     output_path |-> None, password |-> None]

Running == [ok |-> FALSE, kind |-> "Running", msg |-> "", val |-> <<>>]

\* convert_to_lossless: the result and the filesystem it leaves
convert_to_lossless(f, image_path) ==
    LET img == OpenImage(f, image_path)
        temp_path == WithExtensionPng(image_path)
    IN  IF ~img.ok THEN [res |-> img, fs |-> f]
        ELSE [res |-> Ok(temp_path), fs |-> SaveImage(f, temp_path, img.val)]

\* options.output_path.unwrap_or_else(|| <stem>_steg.png next to the carrier)
EncodeOutputPath(o) ==
    IF o.output_path.some THEN o.output_path.val
    ELSE LET stem == FileStem(o.image_path)
             name == IF IsUtf8(stem, 1) THEN stem ELSE <<111, 117, 116, 112, 117, 116>>
         IN  [dir |-> o.image_path.dir, name |-> name \o STEG_PNG]

\* name_len byte, name bytes, encryption flag
FrameHead(file_data, password) ==
    <<Len(file_data.name) % 256>> \o file_data.name \o <<IF password.some THEN 1 ELSE 0>>

\* the envelope without its compression flag byte
Envelope_NoFlag(payload) ==
    LET c == compress(payload)
    IN  [final_payload |-> c.data, compression_applied |-> c.applied]

\* compression flag byte, then the compressed or raw outer payload
Envelope(payload) ==
    LET c == compress(payload)
    IN  [final_payload |-> <<IF c.applied THEN 1 ELSE 0>> \o c.data,
         compression_applied |-> c.applied]

\* the run ends here with error r
Fail(r, endpc) ==
    /\ result' = r
    /\ pc' = endpc

StartEncode(image_path, file_path, output_path, password) ==
    /\ pc = "idle"
    /\ pc' = "enc_convert"
    /\ opts' = [cmd |-> "encode", image_path |-> image_path, file_path |-> file_path,
                output_path |-> output_path, password |-> password]
    /\ loc' = LocInit
    /\ result' = Running
    /\ hist' = [hist EXCEPT !.fsStart = fs]
    /\ UNCHANGED fs

EncConvert ==
    /\ pc = "enc_convert"
    /\ IF ~is_lossless_format(opts.image_path)
       THEN LET r == convert_to_lossless(fs, opts.image_path)
            IN  /\ fs' = r.fs
                /\ IF r.res.ok
                   THEN /\ loc' = [loc EXCEPT !.working_image_path = Some(r.res.val),
                                              !.converted_to_png = TRUE]
                        /\ pc' = "enc_read"
                        /\ UNCHANGED result
                   ELSE /\ Fail(r.res, "encoded")
                        /\ UNCHANGED loc
       ELSE /\ loc' = [loc EXCEPT !.working_image_path = Some(opts.image_path)]
            /\ pc' = "enc_read"
            /\ UNCHANGED <<fs, result>>
    /\ UNCHANGED <<opts, hist>>

EncRead ==
    /\ pc = "enc_read"
    /\ LET r == read_file(fs, opts.file_path)
       IN  IF r.ok
           THEN /\ loc' = [loc EXCEPT !.file_data = Some(r.val)]
                /\ pc' = "enc_frame"
                /\ UNCHANGED result
           ELSE /\ Fail(r, "encoded")
                /\ UNCHANGED loc
    /\ UNCHANGED <<fs, opts, hist>>

\* what rand::thread_rng() may hand out as salt and nonce
Salts == {[i \in 1..SALT_LEN |-> (91 * v + 37 * i) % 256] : v \in 1..SaltChoices}
Nonces == {[i \in 1..NONCE_LEN |-> (53 * v + 29 * i) % 256] : v \in 1..NonceChoices}

EncFrame ==
    /\ pc = "enc_frame"
    /\ LET file_data == loc.file_data.val
           head == FrameHead(file_data, opts.password)
       IN  IF opts.password.some
           THEN \E salt \in Salts, nonce \in Nonces :
                  LET e == encrypt(file_data.data, opts.password.val, salt, nonce)
                  IN  IF e.res.ok
                      THEN /\ loc' = [loc EXCEPT !.payload = head \o e.res.val,
                                                 !.steps = e.steps]
                           /\ pc' = "enc_compress"
                           /\ UNCHANGED result
                      ELSE /\ Fail(e.res, "encoded")
                           /\ loc' = [loc EXCEPT !.steps = e.steps]
           ELSE /\ loc' = [loc EXCEPT !.payload = head \o file_data.data]
                /\ pc' = "enc_compress"
                /\ UNCHANGED result
    /\ UNCHANGED <<fs, opts, hist>>

EncCompress ==
    /\ pc = "enc_compress"
    /\ LET e == Envelope(loc.payload)
       IN  loc' = [loc EXCEPT !.final_payload = e.final_payload,
                              !.compression_applied = e.compression_applied]
    /\ pc' = "enc_validate"
    /\ UNCHANGED <<fs, opts, result, hist>>

EncValidate ==
    /\ pc = "enc_validate"
    /\ LET output_path == EncodeOutputPath(opts)
           r == validate_output_path(fs, output_path)
       IN  /\ loc' = [loc EXCEPT !.output_path = Some(output_path)]
           /\ IF r.ok THEN pc' = "enc_hide" /\ UNCHANGED result
              ELSE Fail(r, "encoded")
    /\ UNCHANGED <<fs, opts, hist>>

EncHide ==
    /\ pc = "enc_hide"
    /\ LET r == hide_data(fs, loc.working_image_path.val, loc.final_payload, loc.output_path.val)
       IN  /\ fs' = r.fs
           /\ result' = r.res
    /\ pc' = "encoded"
    /\ UNCHANGED <<opts, loc, hist>>

(***************************************************************************)
(* decode                                                                  *)
(***************************************************************************)
StartDecode(image_path, output_path, password) ==
    /\ pc = "encoded"
    /\ pc' = "dec_extract"
    /\ hist' = [fsStart |-> fs, decryptCalled |-> FALSE,
                enc |-> [done |-> TRUE, ok |-> result.ok, file |-> loc.file_data,
                         output_path |-> loc.output_path, password |-> opts.password,
                         loc |-> loc, fsStart |-> hist.fsStart]]
    /\ opts' = [cmd |-> "decode", image_path |-> image_path, file_path |-> None,
                output_path |-> output_path, password |-> password]
    /\ loc' = LocInit
    /\ result' = Running
    /\ UNCHANGED fs

DecExtract ==
    /\ pc = "dec_extract"
    /\ LET r == extract_data(fs, opts.image_path)
       IN  IF ~r.ok THEN Fail(r, "decoded") /\ UNCHANGED loc
           ELSE IF Len(r.val) = 0
           THEN Fail(Err("Data", "No data found in image"), "decoded") /\ UNCHANGED loc
           ELSE /\ loc' = [loc EXCEPT !.embedded_data = r.val]
                /\ pc' = "dec_decompress"
                /\ UNCHANGED result
    /\ UNCHANGED <<fs, opts, hist>>

\* Unwrap with the flag byte left in front of the payload
Unwrap_KeepFlagByte(embedded_data) ==
    LET compression_flag == embedded_data[1]
        payload_data == embedded_data
        decompressed == IF compression_flag = 1 THEN decompress(payload_data)
                        ELSE Ok(payload_data)
    IN  IF ~decompressed.ok THEN decompressed
        ELSE IF Len(decompressed.val) = 0 THEN Err("Data", "Processed data is empty")
        ELSE decompressed

\* strip the compression flag and undo the compression it announces
Unwrap(embedded_data) ==
    LET compression_flag == embedded_data[1]
        payload_data == Slice(embedded_data, 1, Len(embedded_data))
        decompressed == IF compression_flag = 1 THEN decompress(payload_data)
                        ELSE Ok(payload_data)
    IN  IF ~decompressed.ok THEN decompressed
        ELSE IF Len(decompressed.val) = 0 THEN Err("Data", "Processed data is empty")
        ELSE decompressed

DecDecompress ==
    /\ pc = "dec_decompress"
    /\ LET r == Unwrap(loc.embedded_data)
       IN  IF ~r.ok THEN Fail(r, "decoded") /\ UNCHANGED loc
           ELSE /\ loc' = [loc EXCEPT !.decompressed_data = r.val]
                /\ pc' = "dec_parse"
                /\ UNCHANGED result
    /\ UNCHANGED <<fs, opts, hist>>

\* ParseMetadata that lets a null byte in the name through
ParseMetadata_NoNullCheck(d) ==
    LET name_len == d[1]
        name == Slice(d, 1, 1 + name_len)
    IN  IF name_len = 0 THEN Err("Data", "Invalid file name length (0)")
        ELSE IF name_len > 255 THEN Err("Data", "Invalid file name length. Maximum is 255")
        ELSE IF Len(d) < 1 + name_len + 1
        THEN Err("Data", "Invalid data structure: missing encryption flag")
        ELSE IF ~IsUtf8(name, 1) THEN Err("Data", "Failed to decode file name")
        ELSE IF Len(name) = 0 THEN Err("Data", "File name is empty")
        ELSE Ok([file_name |-> name, encryption_flag |-> d[1 + name_len + 1],
                 encrypted_data |-> Slice(d, 1 + name_len + 1, Len(d))])

\* name_len, file name, encryption flag and the bytes after it
ParseMetadata(d) ==
    LET name_len == d[1]
        name == Slice(d, 1, 1 + name_len)
    IN  IF name_len = 0 THEN Err("Data", "Invalid file name length (0)")
        ELSE IF name_len > 255 THEN Err("Data", "Invalid file name length. Maximum is 255")
        ELSE IF Len(d) < 1 + name_len + 1
        THEN Err("Data", "Invalid data structure: missing encryption flag")
        ELSE IF ~IsUtf8(name, 1) THEN Err("Data", "Failed to decode file name")
        ELSE IF Len(name) = 0 THEN Err("Data", "File name is empty")
        ELSE IF \E i \in 1..Len(name) : name[i] = 0
        THEN Err("Data", "File name contains null bytes")
        ELSE Ok([file_name |-> name, encryption_flag |-> d[1 + name_len + 1],
                 encrypted_data |-> Slice(d, 1 + name_len + 1, Len(d))])

DecParse ==
    /\ pc = "dec_parse"
    /\ LET r == ParseMetadata(loc.decompressed_data)
       IN  IF ~r.ok THEN Fail(r, "decoded") /\ UNCHANGED loc
           ELSE /\ loc' = [loc EXCEPT !.file_name = Some(r.val.file_name),
                                      !.encryption_flag = Some(r.val.encryption_flag),
                                      !.encrypted_data = r.val.encrypted_data]
                /\ pc' = "dec_content"
                /\ UNCHANGED result
    /\ UNCHANGED <<fs, opts, hist>>

\* ResolveContent that looks at the password first and the flag second
ResolveContent_PasswordFirst(encryption_flag, password, encrypted_data) ==
    IF password.some
    THEN LET d == decrypt(encrypted_data, password.val)
         IN  [res |-> d.res, called |-> TRUE, steps |-> d.steps]
    ELSE IF encryption_flag = 1
         THEN [res |-> Err("Validation", "File is password-protected. Please provide the decryption password using -p or --password flag"),
               called |-> FALSE, steps |-> <<>>]
         ELSE [res |-> Ok(encrypted_data), called |-> FALSE, steps |-> <<>>]

\* the file content behind the encryption flag: decrypt is called only for
\* flag 1 with a password; `called` says whether it was
ResolveContent(encryption_flag, password, encrypted_data) ==
    IF encryption_flag = 1
    THEN IF password.some
         THEN LET d == decrypt(encrypted_data, password.val)
              IN  [res |-> d.res, called |-> TRUE, steps |-> d.steps]
         ELSE [res |-> Err("Validation", "File is password-protected. Please provide the decryption password using -p or --password flag"),
               called |-> FALSE, steps |-> <<>>]
    ELSE IF password.some
         THEN [res |-> Err("Validation", "Password provided for unencrypted file. This file does not require a password"),
               called |-> FALSE, steps |-> <<>>]
         ELSE [res |-> Ok(encrypted_data), called |-> FALSE, steps |-> <<>>]

\* DecContent without the check that the content is not empty
DecContent_AllowEmpty ==
    /\ pc = "dec_content"
    /\ LET r == ResolveContent(loc.encryption_flag.val, opts.password, loc.encrypted_data)
       IN  /\ hist' = [hist EXCEPT !.decryptCalled = r.called]
           /\ IF ~r.res.ok
              THEN Fail(r.res, "decoded") /\ loc' = [loc EXCEPT !.steps = r.steps]
              ELSE /\ loc' = [loc EXCEPT !.content = r.res.val, !.steps = r.steps]
                   /\ pc' = "dec_write"
                   /\ UNCHANGED result
    /\ UNCHANGED <<fs, opts>>

DecContent ==
    /\ pc = "dec_content"
    /\ LET r == ResolveContent(loc.encryption_flag.val, opts.password, loc.encrypted_data)
       IN  /\ hist' = [hist EXCEPT !.decryptCalled = r.called]
           /\ IF ~r.res.ok
              THEN Fail(r.res, "decoded") /\ loc' = [loc EXCEPT !.steps = r.steps]
              ELSE IF Len(r.res.val) = 0
              THEN /\ Fail(Err("Data", "Extracted file data is empty"), "decoded")
                   /\ loc' = [loc EXCEPT !.steps = r.steps]
              ELSE /\ loc' = [loc EXCEPT !.content = r.res.val, !.steps = r.steps]
                   /\ pc' = "dec_write"
                   /\ UNCHANGED result
    /\ UNCHANGED <<fs, opts>>

\* options.output_path.unwrap_or_else(|| PathBuf::from(&file_name))
DecodeOutputPath(o, file_name) ==
    IF o.output_path.some THEN o.output_path.val ELSE PathFromName(file_name)

DecWrite ==
    /\ pc = "dec_write"
    /\ LET output_path == DecodeOutputPath(opts, loc.file_name.val)
           r == write_file(fs, output_path, loc.content)
       IN  /\ fs' = r.fs
           /\ loc' = [loc EXCEPT !.output_path = Some(output_path)]
           /\ result' = IF r.res.ok
                        THEN Ok([output_path |-> output_path, file_name |-> loc.file_name.val,
                                 file_size |-> Len(loc.content),
                                 encrypted |-> (loc.encryption_flag.val = 1)])
                        ELSE r.res
    /\ pc' = "decoded"
    /\ UNCHANGED <<opts, hist>>

(***************************************************************************)
(* The session: one encode run, then one decode run, on a filesystem that  *)
(* holds three carriers and the file to hide.                              *)
(***************************************************************************)
InDir(dir, name) == [dir |-> dir, name |-> name]
Here(name) == InDir(<<>>, name)

SMALL_PNG == Here(<<115, 46, 112, 110, 103>>)
BIG_PNG == Here(<<99, 46, 112, 110, 103>>)
LOSSY_JPG == Here(<<106, 46, 106, 112, 103>>)
FILE_A == Here(<<97>>)
MISSING_FILE == Here(<<109>>)
NODIR_OUT == InDir(<<110, 111, 100, 105, 114>>, <<111, 46, 112, 110, 103>>)

\* a carrier's pixels before anything is embedded
CarrierPixel(seed, i) ==
    << (seed * i) % 256, (seed + 3 * i) % 256, (7 * i + seed * seed) % 256, 255 - (i % 2) >>

Carrier(width, height, seed) ==
    [width |-> width, height |-> height,
     px |-> [i \in 1..(width * height) |-> CarrierPixel(seed, i)]]

CarrierSeeds == {0, 77}

\* the byte strings of length n over the alphabet A
RECURSIVE SeqsOfLen(_, _)
SeqsOfLen(A, n) ==
    IF n = 0 THEN {<<>>}
    ELSE {<<a>> \o t : a \in A, t \in SeqsOfLen(A, n - 1)}

\* file contents: every short string over two byte values, and runs of zeros
FileContents ==
    SeqsOfLen({0, 65}, 0) \cup SeqsOfLen({0, 65}, 1) \cup SeqsOfLen({0, 65}, 2)
      \cup {[i \in 1..n |-> 0] : n \in 3..MaxFileLen}

PASSWORD_P == <<112, 119>>
PASSWORD_Q == <<113>>
Passwords == {None, Some(<<>>), Some(PASSWORD_P), Some(PASSWORD_Q)}

Init ==
    /\ \E seed \in CarrierSeeds, content \in FileContents :
         fs = (SMALL_PNG :> ImageFile(Carrier(8, 5, seed)))
                @@ (BIG_PNG :> ImageFile(Carrier(19, 9, seed)))
                @@ (LOSSY_JPG :> ImageFile(Carrier(8, 5, seed)))
                @@ (FILE_A :> DataFile(content))
    /\ pc = "idle"
    /\ opts = NoOpts
    /\ loc = LocInit
    /\ result = Running
    /\ hist = HistInit

EncodeCommand ==
    \E image_path \in {SMALL_PNG, BIG_PNG, LOSSY_JPG},
       file_path \in {FILE_A, MISSING_FILE},
       output_path \in {None, Some(WithExtensionPng(LOSSY_JPG)), Some(NODIR_OUT)},
       password \in Passwords :
         StartEncode(image_path, file_path, output_path, password)

DecodeCommand ==
    /\ pc = "encoded"
    /\ \E image_path \in {EncodeOutputPath(opts), SMALL_PNG},
          output_path \in {None, Some(NODIR_OUT)},
          password \in Passwords :
           StartDecode(image_path, output_path, password)

Next ==
    \/ EncodeCommand
    \/ EncConvert
    \/ EncRead
    \/ EncFrame
    \/ EncCompress
    \/ EncValidate
    \/ EncHide
    \/ DecodeCommand
    \/ DecExtract
    \/ DecDecompress
    \/ DecParse
    \/ DecContent
    \/ DecWrite

Spec == Init /\ [][Next]_vars

(***************************************************************************)
(* The codec on its own: hide_data on a carrier, possibly one flipped      *)
(* header bit in the stego image, then extract_data.                       *)
(***************************************************************************)
CARRIER == Here(<<105, 110, 46, 112, 110, 103>>)
STEGO == Here(<<111, 117, 116, 46, 112, 110, 103>>)

\* carrier sizes around the 80-bit header and the payload lengths below
CarrierSizes == {<<5, 5>>, <<7, 4>>, <<9, 4>>, <<8, 5>>, <<9, 5>>}

CodecPayloads ==
    UNION {SeqsOfLen({0, 255}, n) : n \in 0..2}
      \cup {[i \in 1..n |-> (40 * i + n) % 256] : n \in 3..MaxPayloadLen}

\* the image with the least-significant bit of colour channel k (0-based) flipped
FlipChannelBit(image, k) ==
    LET p == (k \div 3) + 1
        c == (k % 3) + 1
        v == image.px[p][c]
    IN  [image EXCEPT !.px[p][c] = SetLsb(v, 1 - (v % 2))]

InitCodec ==
    /\ \E size \in CarrierSizes, seed \in CarrierSeeds :
         fs = (CARRIER :> ImageFile(Carrier(size[1], size[2], seed)))
    /\ pc = "codec_idle"
    /\ opts = NoOpts
    /\ loc = LocInit
    /\ result = Running
    /\ hist = HistInit

CodecHide ==
    /\ pc = "codec_idle"
    /\ \E data \in CodecPayloads :
         LET r == hide_data(fs, CARRIER, data, STEGO)
         IN  /\ fs' = r.fs
             /\ result' = r.res
             /\ loc' = [loc EXCEPT !.final_payload = data]
    /\ pc' = "codec_hidden"
    /\ UNCHANGED <<opts, hist>>

\* one header bit of the stego image is flipped on disk
CodecFlip ==
    /\ pc = "codec_hidden"
    /\ result.ok
    /\ \E k \in 0..(HEADER_LEN * 8 - 1) :
         /\ fs' = [fs EXCEPT ![STEGO] = ImageFile(FlipChannelBit(fs[STEGO].img, k))]
         /\ loc' = [loc EXCEPT !.steps = <<"flip", k>>]
    /\ pc' = "codec_flipped"
    /\ UNCHANGED <<opts, result, hist>>

CodecExtract ==
    /\ pc \in {"codec_hidden", "codec_flipped"}
    /\ result' = extract_data(fs, STEGO)
    /\ hist' = [hist EXCEPT !.enc.done = TRUE, !.enc.ok = result.ok]
    /\ pc' = "codec_extracted"
    /\ UNCHANGED <<fs, opts, loc>>

NextCodec ==
    \/ CodecHide
    \/ CodecFlip
    \/ CodecExtract

SpecCodec == InitCodec /\ [][NextCodec]_vars

(***************************************************************************)
(* extract_data on an image it did not make: a carrier whose first 80      *)
(* channel bits hold a header of any content, or a carrier too small to    *)
(* hold a header at all.                                                   *)
(***************************************************************************)
\* 75, 81, 96 and 108 channel bits
ExtractSizes == {<<5, 5>>, <<9, 3>>, <<8, 4>>, <<6, 6>>}

ForeignMagics == {HEADER_MAGIC, <<68, 80, 83, 79>>}

\* length fields: zero, small, over any of the carriers, the hard cap, over it
ForeignLengths ==
    {<<0, 0, 0, 0>>, <<0, 0, 0, 1>>, <<0, 0, 0, 2>>, <<0, 0, 0, 3>>, <<0, 0, 0, 4>>,
     <<0, 0, 1, 0>>, <<16, 0, 0, 0>>, <<16, 0, 0, 1>>, <<255, 255, 255, 255>>}

\* the image whose first 8 * len(bytes) colour channels carry `bytes` in
\* their least-significant bits
WithLeadingBytes(image, bytes) ==
    [image EXCEPT !.px =
        [i \in DOMAIN image.px |->
            [c \in 1..4 |->
                LET k == 3 * (i - 1) + (c - 1)
                IN  IF c <= 3 /\ k < 8 * Len(bytes)
                    THEN SetLsb(image.px[i][c], BitOfBytes(bytes, k))
                    ELSE image.px[i][c]]]]

InitExtract ==
    /\ \E size \in ExtractSizes, seed \in CarrierSeeds :
         fs = (STEGO :> ImageFile(Carrier(size[1], size[2], seed)))
    /\ pc = "extract_idle"
    /\ opts = NoOpts
    /\ loc = LocInit
    /\ result = Running
    /\ hist = HistInit

\* the image on disk carries a header with this magic, length field and a
\* right or wrong checksum
ExtractForeign ==
    /\ pc = "extract_idle"
    /\ 3 * Len(fs[STEGO].img.px) >= 8 * HEADER_LEN
    /\ \E magic \in ForeignMagics, length_bytes \in ForeignLengths, off \in {0, 1} :
         LET head == magic \o length_bytes
             sum == (calculate_header_checksum(head) + off) % 65536
         IN  fs' = [fs EXCEPT ![STEGO] =
                      ImageFile(WithLeadingBytes(fs[STEGO].img, head \o U16ToBe(sum)))]
    /\ loc' = [loc EXCEPT !.steps = <<"foreign">>]
    /\ pc' = "extract_foreign"
    /\ UNCHANGED <<opts, result, hist>>

ExtractRun ==
    /\ pc \in {"extract_idle", "extract_foreign"}
    /\ result' = extract_data(fs, STEGO)
    /\ pc' = "extract_done"
    /\ UNCHANGED <<fs, opts, loc, hist>>

NextExtract ==
    \/ ExtractForeign
    \/ ExtractRun

SpecExtract == InitExtract /\ [][NextExtract]_vars

(***************************************************************************)
(* The crypto engine on its own: encrypt, possibly one changed ciphertext  *)
(* byte, then decrypt.                                                     *)
(***************************************************************************)
CryptoData == UNION {SeqsOfLen({0, 65}, n) : n \in 0..MaxCryptoLen}

CryptoPasswords == {<<>>, PASSWORD_P, PASSWORD_Q}

\* the differences a changed byte may have from the original
ByteDeltas == {1, 128, 255}

InitCrypto ==
    /\ fs = <<>>
    /\ pc = "crypto_idle"
    /\ opts = NoOpts
    /\ \E data \in CryptoData : loc = [LocInit EXCEPT !.content = data]
    /\ result = Running
    /\ hist = HistInit

CryptoEncrypt ==
    /\ pc = "crypto_idle"
    /\ \E password \in CryptoPasswords, salt \in Salts, nonce \in Nonces :
         LET e == encrypt(loc.content, password, salt, nonce)
         IN  /\ result' = e.res
             /\ loc' = [loc EXCEPT !.encrypted_data = e.res.val, !.steps = e.steps]
             /\ opts' = [opts EXCEPT !.cmd = "encrypt", !.password = Some(password)]
             /\ hist' = [hist EXCEPT !.enc.password = Some(password)]
    /\ pc' = "crypto_encrypted"
    /\ UNCHANGED fs

\* one byte of the ciphertext part (offset >= 28) is changed
CryptoTamper ==
    /\ pc = "crypto_encrypted"
    /\ result.ok
    /\ \E off \in (SALT_LEN + NONCE_LEN)..(Len(loc.encrypted_data) - 1), delta \in ByteDeltas :
         /\ loc' = [loc EXCEPT !.encrypted_data[off + 1] = Xor8(@, delta)]
         /\ opts' = [opts EXCEPT !.cmd = "tamper"]
    /\ pc' = "crypto_tampered"
    /\ UNCHANGED <<fs, result, hist>>

\* a blob cut short of the 44 bytes decrypt needs
CryptoTruncate ==
    /\ pc = "crypto_encrypted"
    /\ result.ok
    /\ \E n \in {0, SALT_LEN + NONCE_LEN + CHECKSUM_LEN - 1} :
         loc' = [loc EXCEPT !.encrypted_data = SubSeq(@, 1, n)]
    /\ opts' = [opts EXCEPT !.cmd = "truncate"]
    /\ pc' = "crypto_tampered"
    /\ UNCHANGED <<fs, result, hist>>

CryptoDecrypt ==
    /\ pc \in {"crypto_encrypted", "crypto_tampered"}
    /\ result.ok
    /\ \E password \in CryptoPasswords :
         LET d == decrypt(loc.encrypted_data, password)
         IN  /\ result' = d.res
             /\ loc' = [loc EXCEPT !.steps = d.steps]
             /\ opts' = [opts EXCEPT !.password = Some(password)]
    /\ pc' = "crypto_decrypted"
    /\ UNCHANGED <<fs, hist>>

NextCrypto ==
    \/ CryptoEncrypt
    \/ CryptoTamper
    \/ CryptoTruncate
    \/ CryptoDecrypt

SpecCrypto == InitCrypto /\ [][NextCrypto]_vars

(***************************************************************************)
(* The compression engine on its own                                       *)
(***************************************************************************)
CompressInputs == UNION {SeqsOfLen({0, 7}, n) : n \in 0..MaxCompressLen}

InitCompress ==
    /\ fs = <<>>
    /\ pc = "compress_idle"
    /\ opts = NoOpts
    /\ \E data \in CompressInputs : loc = [LocInit EXCEPT !.payload = data]
    /\ result = Running
    /\ hist = HistInit

Compress ==
    /\ pc = "compress_idle"
    /\ LET c == compress(loc.payload)
       IN  /\ result' = Ok(c.data)
           /\ loc' = [loc EXCEPT !.compression_applied = c.applied]
    /\ pc' = "compressed"
    /\ UNCHANGED <<fs, opts, hist>>

Decompress ==
    /\ pc = "compressed"
    /\ loc.compression_applied
    /\ result' = decompress(result.val)
    /\ pc' = "decompressed"
    /\ UNCHANGED <<fs, opts, loc, hist>>

NextCompress ==
    \/ Compress
    \/ Decompress

SpecCompress == InitCompress /\ [][NextCompress]_vars

(***************************************************************************)
(* The worked example: a short file hidden without a password in a         *)
(* 100x100 carrier, then decoded.                                          *)
(***************************************************************************)
EXAMPLE_PNG == Here(<<101, 46, 112, 110, 103>>)
A_TXT == Here(<<97, 46, 116, 120, 116>>)

ExampleFiles ==
    {[path |-> A_TXT, data |-> [i \in 1..10 |-> (seed + 23 * i) % 256]] : seed \in {0, 100}}
      \cup {[path |-> A_TXT, data |-> <<65, 66>>], [path |-> FILE_A, data |-> <<1, 2, 3, 4>>],
            [path |-> FILE_A, data |-> [i \in 1..10 |-> 48 + i]]}

InitExample ==
    /\ \E seed \in CarrierSeeds, file \in ExampleFiles :
         fs = (EXAMPLE_PNG :> ImageFile(Carrier(100, 100, seed)))
                @@ (file.path :> DataFile(file.data))
    /\ pc = "idle"
    /\ opts = NoOpts
    /\ loc = LocInit
    /\ result = Running
    /\ hist = HistInit

ExampleEncode ==
    \E file_path \in {A_TXT, FILE_A} : StartEncode(EXAMPLE_PNG, file_path, None, None)

ExampleDecode ==
    /\ pc = "encoded"
    /\ StartDecode(EncodeOutputPath(opts), None, None)

NextExample ==
    \/ ExampleEncode
    \/ EncConvert
    \/ EncRead
    \/ EncFrame
    \/ EncCompress
    \/ EncValidate
    \/ EncHide
    \/ ExampleDecode
    \/ DecExtract
    \/ DecDecompress
    \/ DecParse
    \/ DecContent
    \/ DecWrite

SpecExample == InitExample /\ [][NextExample]_vars

(***************************************************************************)
(* Framing: decode of stego images whose envelope another encoder wrote,   *)
(* well-formed or not, and encode of files whose names are at the limits   *)
(* of the one-byte name_len, followed by decode of the result.             *)
(***************************************************************************)
\* blobs as encrypt makes them under PASSWORD_P, of no content and of one byte
ForeignBlob(data) ==
    encrypt(data, PASSWORD_P, [i \in 1..SALT_LEN |-> 7], [i \in 1..NONCE_LEN |-> 9]).res.val

\* outer payloads: empty, name_len 0, flag missing, name not UTF-8, name with
\* a null byte, no content behind flag 0, 1 and 2, and well-formed ones
ForeignPayloads ==
    {<<>>, <<0>>, <<0, 97, 0, 65>>, <<1, 97>>, <<2, 97, 0>>, <<3, 97, 98, 1>>,
     <<1, 255, 0, 65>>, <<1, 255, 1, 65>>, <<2, 195, 40, 0, 65>>,
     <<1, 0, 0, 65>>, <<2, 97, 0, 1, 65>>,
     <<1, 97, 0>>, <<1, 97, 1>>, <<1, 97, 2>>,
     <<1, 97, 0, 65>>, <<1, 97, 2, 65>>, <<2, 195, 169, 0, 65, 66>>,
     <<1, 97, 1>> \o ForeignBlob(<<>>), <<1, 97, 1>> \o ForeignBlob(<<65>>)}

\* envelopes: each payload raw behind flag 0 and compressed behind flag 1,
\* a raw payload behind flag 2, a broken stream behind flag 1
ForeignEnvelopes ==
    {<<0>> \o q : q \in ForeignPayloads}
      \cup {<<1>> \o Deflate(q) : q \in ForeignPayloads}
      \cup {<<2, 1, 97, 0, 65>>, <<1, 5>>}

NAMES_PNG == Here(<<110, 46, 112, 110, 103>>)

\* file names of 1, 254, 255 and 256 bytes, and one that is not UTF-8
NameOfLen(n) == [i \in 1..n |-> 98]

NamedFiles ==
    {FILE_A, Here(NameOfLen(MAX_FILENAME_LENGTH - 1)), Here(NameOfLen(MAX_FILENAME_LENGTH)),
     Here(NameOfLen(MAX_FILENAME_LENGTH + 1)), Here(<<255, 97>>)}

InitFraming ==
    /\ \/ /\ \E seed \in CarrierSeeds, envelope \in ForeignEnvelopes :
               fs = (STEGO :> ImageFile(embed_data(Carrier(16, 10, seed), envelope)))
          /\ pc = "encoded"
       \/ /\ \E file_path \in NamedFiles, content \in {<<65>>, <<65, 66>>} :
               fs = (NAMES_PNG :> ImageFile(Carrier(30, 30, 77)))
                      @@ (file_path :> DataFile(content))
          /\ pc = "idle"
    /\ opts = NoOpts
    /\ loc = LocInit
    /\ result = Running
    /\ hist = HistInit

FramingEncode ==
    \E file_path \in NamedFiles, password \in {None, Some(PASSWORD_P)} :
      /\ file_path \in DOMAIN fs
      /\ StartEncode(NAMES_PNG, file_path, None, password)

FramingDecode ==
    /\ pc = "encoded"
    /\ \E password \in {None, Some(PASSWORD_P), Some(PASSWORD_Q)} :
         StartDecode(IF opts.cmd = "encode" THEN EncodeOutputPath(opts) ELSE STEGO,
                     None, password)

NextFraming ==
    \/ FramingEncode
    \/ EncConvert
    \/ EncRead
    \/ EncFrame
    \/ EncCompress
    \/ EncValidate
    \/ EncHide
    \/ FramingDecode
    \/ DecExtract
    \/ DecDecompress
    \/ DecParse
    \/ DecContent
    \/ DecWrite

SpecFraming == InitFraming /\ [][NextFraming]_vars

(***************************************************************************)
(* The session and the crypto engine side by side                          *)
(***************************************************************************)
InitSessionOrCrypto == Init \/ InitCrypto

NextSessionOrCrypto ==
    \/ Next
    \/ NextCrypto

SpecSessionOrCrypto == InitSessionOrCrypto /\ [][NextSessionOrCrypto]_vars

(***************************************************************************)
(* Properties                                                              *)
(***************************************************************************)
\* the entry at a path, or Absent
Absent == [kind |-> "absent", img |-> <<>>, data |-> <<>>]
FileAt(f, path) == IF path \in DOMAIN f THEN f[path] ELSE Absent

\* the decode run read the image the preceding, successful encode run wrote
DecodesEncoded ==
    /\ hist.enc.done
    /\ hist.enc.ok
    /\ opts.cmd = "decode"
    /\ opts.image_path = hist.enc.output_path.val

\* C1: decoding the image a successful encode produced, with the password
\* given to encode (none, or the same one) and a writable output path, succeeds,
\* reports the name of the hidden file and writes exactly its bytes.
C1_RoundTrip ==
    ( /\ pc = "decoded"
      /\ DecodesEncoded
      /\ opts.password = hist.enc.password
      /\ validate_output_path(hist.fsStart,
                              DecodeOutputPath(opts, hist.enc.file.val.name)).ok )
    => /\ result.ok
       /\ result.val.file_name = hist.enc.file.val.name
       /\ result.val.file_size = Len(hist.enc.file.val.data)
       /\ FileAt(fs, result.val.output_path) = DataFile(hist.enc.file.val.data)

C1_Witness ==
    /\ pc = "decoded"
    /\ DecodesEncoded
    /\ result.ok
    /\ hist.enc.loc.compression_applied
    /\ opts.password = hist.enc.password

C1_WitnessEncrypted ==
    /\ pc = "decoded"
    /\ DecodesEncoded
    /\ result.ok
    /\ ~hist.enc.loc.compression_applied
    /\ hist.enc.password.some
    /\ opts.password = hist.enc.password

\* C2: hide_data succeeds exactly when len(payload) + 10 <= floor(w*h*3/8);
\* on success the stego image exists, otherwise the call fails with the
\* Validation capacity error and writes nothing.
C2_CapacityBoundary ==
    pc = "codec_hidden" =>
      LET img == fs[CARRIER].img
          capacity == (img.width * img.height * 3) \div 8
          needed == Len(loc.final_payload) + 10
      IN  /\ result.ok <=> needed <= capacity
          /\ result.ok => STEGO \in DOMAIN fs
          /\ ~result.ok => /\ result = Err("Validation", "Data too large for image")
                           /\ STEGO \notin DOMAIN fs

C2_Witness ==
    /\ pc = "codec_hidden"
    /\ result.ok
    /\ Len(loc.final_payload) + 10 = (fs[CARRIER].img.width * fs[CARRIER].img.height * 3) \div 8

C2_WitnessOneOver ==
    /\ pc = "codec_hidden"
    /\ ~result.ok
    /\ Len(loc.final_payload) + 10 = (fs[CARRIER].img.width * fs[CARRIER].img.height * 3) \div 8 + 1

\* C3: after one of the 80 header bits of a stego image is flipped,
\* extract_data fails with the Data error of the magic or of the checksum.
C3_ChecksumSensitivity ==
    (pc = "codec_extracted" /\ loc.steps # <<>>) =>
      /\ ~result.ok
      /\ result.kind = "Data"
      /\ result.msg \in
           {"No embedded data detected. This image does not appear to contain steganographic content",
            "Data integrity check failed. The embedded data may be corrupted"}

C3_Witness ==
    /\ pc = "codec_extracted"
    /\ loc.steps # <<>>
    /\ loc.steps[2] >= 32
    /\ loc.steps[2] < 64
    /\ Len(loc.final_payload) >= 3
    /\ result.msg = "Data integrity check failed. The embedded data may be corrupted"

\* the parsed encryption flag and the presence of a password disagree
FlagPasswordMismatch ==
    /\ opts.cmd = "decode"
    /\ loc.encryption_flag.some
    /\ (loc.encryption_flag.val = 1) # opts.password.some

\* C4: when flag and password disagree, decode ends with a Validation error,
\* decrypt is never called and no file is written.
C4_FlagPasswordConsistency ==
    FlagPasswordMismatch =>
      /\ ~hist.decryptCalled
      /\ loc.steps = <<>>
      /\ fs = hist.fsStart
      /\ pc # "dec_write"
      /\ pc = "decoded" => (~result.ok /\ result.kind = "Validation")

C4_Witness ==
    /\ FlagPasswordMismatch
    /\ pc = "decoded"
    /\ loc.encryption_flag.val = 0
    /\ opts.password.some
    /\ Len(opts.password.val) > 0

\* the decode run read an encrypted stego image and was given another password
WrongPassword ==
    /\ pc = "decoded"
    /\ DecodesEncoded
    /\ hist.enc.password.some
    /\ opts.password.some
    /\ opts.password # hist.enc.password

C6_CompressionDecision ==
    pc = "compressed" =>
      LET n == Len(loc.payload)
          c == Len(Deflate(loc.payload))
      IN  /\ loc.compression_applied <=> 100 * c < 95 * n
          /\ loc.compression_applied => result.val = Deflate(loc.payload)
          /\ ~loc.compression_applied => result.val = loc.payload

\* C7: after one byte of the ciphertext part of a blob is changed, decrypt
\* with the encryption password fails with "Authentication failed".
C7_TamperSensitivity ==
    ( /\ pc = "crypto_decrypted"
      /\ opts.cmd = "tamper"
      /\ opts.password = hist.enc.password )
    => result = Err("Encryption", "Authentication failed")

C7_Witness ==
    /\ pc = "crypto_decrypted"
    /\ opts.cmd = "tamper"
    /\ opts.password = hist.enc.password
    /\ Len(loc.encrypted_data) > SALT_LEN + NONCE_LEN + CHECKSUM_LEN
    /\ loc.steps = <<"length", "derive_key", "cipher", "verify">>

\* C8: a failing run leaves the output path as it was: a failing encode has
\* not touched its output path, a failing decode has written nothing, and
\* before the last stage of a run nothing is written to the output path.
C8_NoPartialOutput ==
    /\ (opts.cmd = "encode" /\ (pc # "encoded" \/ ~result.ok))
         => FileAt(fs, EncodeOutputPath(opts)) = FileAt(hist.fsStart, EncodeOutputPath(opts))
    /\ (opts.cmd = "decode" /\ (pc # "decoded" \/ ~result.ok))
         => fs = hist.fsStart

\* the unencrypted, uncompressed encode run has embedded its envelope
PlainEncodeDone ==
    /\ opts.cmd = "encode"
    /\ pc = "encoded"
    /\ result.ok
    /\ ~opts.password.some
    /\ ~loc.compression_applied

\* the first n bytes the colour-channel bits of an image spell
LeadingBytes(image, n) ==
    LET bits == CollectBits(image, 8 * n)
    IN  [i \in 1..n |-> ByteOfBits(bits, 8 * (i - 1))]

\* C9: without password and compression the outer payload has
\* 1 + name_len + 1 + len(data) bytes, the envelope one byte more, and
\* envelope + 10 bytes are embedded: the stego image starts with exactly the
\* header and the envelope, the header's length field is the envelope size,
\* and no later channel differs from the carrier.  For "a.txt" with 10 bytes
\* in a 100x100 carrier (capacity 3750) these are 17, 18 and 28 bytes.
C9_EnvelopeSizes ==
    PlainEncodeDone =>
      LET name == loc.file_data.val.name
          data == loc.file_data.val.data
          payload_size == 1 + Len(name) + 1 + Len(data)
          envelope_size == payload_size + 1
          embedded_size == envelope_size + 10
          carrier == hist.fsStart[loc.working_image_path.val].img
          stego == fs[loc.output_path.val].img
          lead == LeadingBytes(stego, embedded_size)
      IN  /\ Len(loc.payload) = payload_size
          /\ Len(loc.final_payload) = envelope_size
          /\ SubSeq(lead, 11, embedded_size) = loc.final_payload
          /\ U32FromBe(SubSeq(lead, 5, 8)) = envelope_size
          /\ \A k \in (8 * embedded_size)..(3 * Len(stego.px) - 1) :
               stego.px[(k \div 3) + 1][(k % 3) + 1] = carrier.px[(k \div 3) + 1][(k % 3) + 1]
          /\ (Len(name) = 5 /\ Len(data) = 10 /\ carrier.width = 100 /\ carrier.height = 100)
               => /\ payload_size = 17
                  /\ envelope_size = 18
                  /\ embedded_size = 28
                  /\ (carrier.width * carrier.height * 3) \div 8 = 3750
                  /\ SubSeq(lead, 5, 8) = <<0, 0, 0, 18>>

C9_Witness ==
    /\ PlainEncodeDone
    /\ loc.file_data.val.name = A_TXT.name
    /\ Len(loc.file_data.val.data) = 10
    /\ fs[loc.output_path.val].img.width = 100
    /\ fs[loc.output_path.val].img.height = 100
    /\ Len(loc.final_payload) = 18

\* C10: encrypt and decrypt given an empty password fail with a Validation
\* error before anything else runs (no salt or nonce drawn, no key derived, no
\* length check), whatever the data or blob; so an encode run that reaches
\* framing with Some("") and a decode run given Some("") on encrypted content
\* fail with Validation.
C10_EmptyPassword ==
    /\ (pc \in {"crypto_encrypted", "crypto_decrypted"} /\ opts.password = Some(<<>>))
         => (~result.ok /\ result.kind = "Validation" /\ loc.steps = <<>>)
    /\ (pc = "encoded" /\ opts.cmd = "encode" /\ opts.password = Some(<<>>)
          /\ loc.file_data.some)
         => (~result.ok /\ result.kind = "Validation" /\ loc.steps = <<>>
               /\ loc.payload = <<>>)
    /\ (pc = "decoded" /\ opts.password = Some(<<>>)
          /\ loc.encryption_flag.some /\ loc.encryption_flag.val = 1)
         => (~result.ok /\ result.kind = "Validation" /\ loc.steps = <<>>
               /\ fs = hist.fsStart)

C10_Witness ==
    /\ pc = "crypto_decrypted"
    /\ opts.password = Some(<<>>)
    /\ Len(loc.encrypted_data) < SALT_LEN + NONCE_LEN + CHECKSUM_LEN
    /\ ~result.ok

C10_WitnessDecode ==
    /\ pc = "decoded"
    /\ opts.password = Some(<<>>)
    /\ loc.encryption_flag.some
    /\ loc.encryption_flag.val = 1

\* hide_data has written a stego image
CodecHidden ==
    /\ pc = "codec_hidden"
    /\ result.ok

\* the least-significant bit of colour channel k (0-based, row-major, R,G,B)
ChannelLsb(image, k) == image.px[(k \div 3) + 1][(k % 3) + 1] % 2

\* C11: after hide_data embeds a payload of length L, the first 80 channel
\* least-significant bits (row-major, R then G then B, most-significant bit
\* of each byte first) spell "DPSN", L as a big-endian u32 and the big-endian
\* u16 sum of those 8 bytes, and the payload's bits follow from bit 80 on.
C11_HeaderLayout ==
    CodecHidden =>
      LET L == Len(loc.final_payload)
          sum == (68 + 80 + 83 + 78 + (L \div 256) + (L % 256)) % 65536
          expected == <<68, 80, 83, 78>> \o <<0, 0, L \div 256, L % 256>>
                        \o <<sum \div 256, sum % 256>> \o loc.final_payload
      IN  \A k \in 0..(8 * (10 + L) - 1) :
            ChannelLsb(fs[STEGO].img, k)
              = (expected[(k \div 8) + 1] \div Pow2(7 - (k % 8))) % 2

C11_Witness ==
    /\ CodecHidden
    /\ Len(loc.final_payload) >= 3

\* C12: embedding N = 8 * (len(payload) + 10) bits leaves the dimensions,
\* the seven higher bits of every channel, every alpha value and every
\* colour channel of index >= N as they were in the carrier.
C12_EmbeddingFrame ==
    CodecHidden =>
      LET old == fs[CARRIER].img
          new == fs[STEGO].img
          N == 8 * (Len(loc.final_payload) + 10)
      IN  /\ new.width = old.width
          /\ new.height = old.height
          /\ DOMAIN new.px = DOMAIN old.px
          /\ \A i \in DOMAIN old.px :
                /\ DOMAIN new.px[i] = 1..4
                /\ new.px[i][4] = old.px[i][4]
                /\ \A c \in 1..3 :
                      /\ new.px[i][c] \div 2 = old.px[i][c] \div 2
                      /\ 3 * (i - 1) + (c - 1) >= N => new.px[i][c] = old.px[i][c]

C12_Witness ==
    /\ CodecHidden
    /\ fs[STEGO].img # fs[CARRIER].img
    /\ (8 * (Len(loc.final_payload) + 10)) % 3 # 0
    /\ 8 * (Len(loc.final_payload) + 10) + 3 < 3 * Len(fs[CARRIER].img.px)

\* extract_data has read back an unmodified stego image of a non-empty payload
CodecReadBack ==
    /\ pc = "codec_extracted"
    /\ loc.steps = <<>>
    /\ STEGO \in DOMAIN fs
    /\ Len(loc.final_payload) > 0

\* C16: extract_data applied to the image hide_data made of a carrier and a
\* non-empty payload that fits returns exactly that payload.
C16_CodecRoundTrip ==
    CodecReadBack => (result.ok /\ result.val = loc.final_payload)

C16_Witness ==
    /\ CodecReadBack
    /\ result.ok
    /\ Len(result.val) >= 3
    /\ 8 * (Len(result.val) + 10) < 3 * Len(fs[STEGO].img.px)

\* byte i (1-based) spelled by the channel bits of an image, first bit highest
ChannelByte(image, i) ==
    LET b(j) == ChannelLsb(image, 8 * (i - 1) + j)
    IN  128 * b(0) + 64 * b(1) + 32 * b(2) + 16 * b(3) + 8 * b(4) + 4 * b(5) + 2 * b(6) + b(7)

\* What the image extract_data was given holds: the channel bits available
\* and, read off the first 80 of them, the header fields.
SeenAvailable == 3 * fs[STEGO].img.width * fs[STEGO].img.height

SeenByte(i) == ChannelByte(fs[STEGO].img, i)

SeenMagicOk == <<SeenByte(1), SeenByte(2), SeenByte(3), SeenByte(4)>> = <<68, 80, 83, 78>>

SeenChecksumOk ==
    256 * SeenByte(9) + SeenByte(10)
      = (SeenByte(1) + SeenByte(2) + SeenByte(3) + SeenByte(4)
           + SeenByte(5) + SeenByte(6) + SeenByte(7) + SeenByte(8)) % 65536

SeenZero == SeenByte(5) = 0 /\ SeenByte(6) = 0 /\ SeenByte(7) = 0 /\ SeenByte(8) = 0

\* the length field is over 256 MiB = 16 * 2^24
SeenOverCap ==
    \/ SeenByte(5) > 16
    \/ SeenByte(5) = 16 /\ (SeenByte(6) > 0 \/ SeenByte(7) > 0 \/ SeenByte(8) > 0)

\* the length field, when not over 256 MiB
SeenLength == ((SeenByte(5) * 256 + SeenByte(6)) * 256 + SeenByte(7)) * 256 + SeenByte(8)

\* 80 + 8 * length > available
SeenOverCapacity == SeenLength > (SeenAvailable - 80) \div 8

Rejected(msg) == result = Err("Data", msg)

\* C13: extract_data fails with a Data error at the first of these that is
\* violated, in this order: 80 channel bits available, magic, checksum,
\* length non-zero, length at most 256 MiB, 80 + 8 * length at most
\* 3 * width * height; so with a wrong magic or checksum the answer does not
\* depend on the length field.
C13_ValidationPrecedence ==
    pc = "extract_done" =>
      IF SeenAvailable < 80
      THEN Rejected("Image dimensions insufficient for data extraction")
      ELSE IF ~SeenMagicOk
      THEN Rejected("No embedded data detected. This image does not appear to contain steganographic content")
      ELSE IF ~SeenChecksumOk
      THEN Rejected("Data integrity check failed. The embedded data may be corrupted")
      ELSE IF SeenZero
      THEN Rejected("No embedded data detected")
      ELSE IF SeenOverCap
      THEN Rejected("Invalid data length detected")
      ELSE IF SeenOverCapacity
      THEN Rejected("Image capacity exceeded")
      ELSE result.ok

\* a header failing the checksum, the zero-length and no other check
C13_Witness ==
    /\ pc = "extract_done"
    /\ SeenAvailable >= 80
    /\ SeenMagicOk
    /\ ~SeenChecksumOk
    /\ SeenZero
    /\ ~result.ok

C13_WitnessTooSmall ==
    /\ pc = "extract_done"
    /\ SeenAvailable < 80

C13_WitnessMagic ==
    /\ pc = "extract_done"
    /\ SeenAvailable >= 80
    /\ ~SeenMagicOk
    /\ SeenChecksumOk
    /\ SeenOverCap

C13_WitnessOverCap ==
    /\ pc = "extract_done"
    /\ SeenAvailable >= 80
    /\ SeenMagicOk
    /\ SeenChecksumOk
    /\ SeenOverCap

C13_WitnessCapacity ==
    /\ pc = "extract_done"
    /\ SeenAvailable >= 80
    /\ SeenMagicOk
    /\ SeenChecksumOk
    /\ ~SeenOverCap
    /\ SeenLength = (SeenAvailable - 80) \div 8 + 1

\* the header of the image extract_data was given passes every check
HeaderValid ==
    /\ pc = "extract_done"
    /\ SeenAvailable >= 80
    /\ SeenMagicOk
    /\ SeenChecksumOk
    /\ ~SeenZero
    /\ ~SeenOverCap
    /\ ~SeenOverCapacity

\* pixel counts up to the largest image validate_image lets through
PixelCounts == {27, 32, 36, 1000000, MAX_IMAGE_DIMENSION * MAX_IMAGE_DIMENSION}

\* C17: when the header passes every check, extract_data has collected at
\* least 80 + 8 * length bits and returns exactly `length` bytes, with
\* 1 <= length <= capacity - 10; it never fails with "cannot extract" or
\* "unexpected end of data".
C17_ExtractionTotal ==
    /\ pc = "extract_done" =>
         /\ result.msg # "Cannot extract data"
         /\ result.msg # "Unexpected end of data while extracting"
    /\ HeaderValid =>
         /\ result.ok
         /\ Len(result.val) = SeenLength
         /\ 1 <= SeenLength
         /\ SeenLength <= calculate_capacity(fs[STEGO].img.width, fs[STEGO].img.height) - 10
         /\ MaxBits(Len(fs[STEGO].img.px)) >= 80 + 8 * SeenLength
    /\ \A total_pixels \in PixelCounts : MaxBits(total_pixels) = total_pixels * 3

C17_Witness ==
    /\ HeaderValid
    /\ loc.steps = <<"foreign">>
    /\ result.ok
    /\ SeenLength = (SeenAvailable - 80) \div 8
    /\ SeenAvailable > 80 + 8 * SeenLength

\* a decode run has ended
DecodeEnded ==
    /\ pc = "decoded"
    /\ opts.cmd = "decode"

\* the extracted envelope holds an empty outer payload, raw or compressed
EmptyPayload ==
    \/ Len(loc.embedded_data) = 1 /\ loc.embedded_data[1] # 1
    \/ loc.embedded_data = <<1>> \o Deflate(<<>>)

\* the parsed outer payload holds empty file content: nothing behind a flag
\* other than 1 and no password given, or the encryption of nothing behind
\* flag 1 and its password given
EmptyContent ==
    /\ loc.file_name.some
    /\ LET d == loc.decompressed_data
           flag == d[d[1] + 2]
       IN  \/ flag # 1 /\ Len(d) = d[1] + 2 /\ ~opts.password.some
           \/ /\ flag = 1
              /\ SubSeq(d, d[1] + 3, Len(d)) = ForeignBlob(<<>>)
              /\ opts.password = Some(PASSWORD_P)

\* C14: a decode whose outer payload or file content is empty fails with a
\* Data error and writes nothing, and a decode that succeeds had a non-empty
\* envelope, outer payload and file content and wrote a non-empty file.
C14_NonEmptyStages ==
    DecodeEnded =>
      /\ EmptyPayload => (Rejected("Processed data is empty") /\ fs = hist.fsStart)
      /\ EmptyContent => (Rejected("Extracted file data is empty") /\ fs = hist.fsStart)
      /\ result.ok =>
           /\ Len(loc.embedded_data) > 0
           /\ Len(loc.decompressed_data) > 0
           /\ Len(loc.content) > 0
           /\ result.val.file_size > 0
           /\ Len(fs[result.val.output_path].data) > 0

\* the decrypted content is empty
C14_Witness ==
    /\ DecodeEnded
    /\ EmptyContent
    /\ hist.decryptCalled
    /\ ~result.ok

C14_WitnessRaw ==
    /\ DecodeEnded
    /\ EmptyContent
    /\ ~hist.decryptCalled
    /\ loc.embedded_data[1] = 1

C14_WitnessPayload ==
    /\ DecodeEnded
    /\ EmptyPayload
    /\ Len(loc.embedded_data) = 2

\* some byte of the name cannot occur there in UTF-8: a lead byte without
\* its continuation byte, or a byte no UTF-8 text contains
NameNotUtf8(name) ==
    \E i \in 1..Len(name) :
      \/ name[i] >= 245
      \/ name[i] >= 192 /\ (i = Len(name) \/ name[i + 1] < 128 \/ name[i + 1] > 191)

\* the outer payload d is not a framed file name
Malformed(d) ==
    \/ d[1] = 0
    \/ Len(d) < 1 + d[1] + 1
    \/ NameNotUtf8(SubSeq(d, 2, 1 + d[1]))
    \/ \E i \in 2..(1 + d[1]) : d[i] = 0

\* C15: a successful decode returns a name of the stored name_len bytes,
\* 1 <= name_len <= 255, without a null byte; an outer payload with
\* name_len 0, without room for the flag, or with a name that is not UTF-8
\* or holds a null byte is rejected with a Data error whatever the flag byte
\* and the password; and encode frames only names of 1 to 255 bytes, with
\* name_len their length.
C15_FilenameFraming ==
    /\ (DecodeEnded /\ result.ok) =>
         LET name == result.val.file_name
             d == loc.decompressed_data
         IN  /\ Len(name) = d[1]
             /\ 1 <= Len(name) /\ Len(name) <= 255
             /\ name = SubSeq(d, 2, 1 + d[1])
             /\ \A i \in 1..Len(name) : name[i] # 0
    /\ (DecodeEnded /\ loc.decompressed_data # <<>> /\ Malformed(loc.decompressed_data)) =>
         /\ ~result.ok
         /\ result.kind = "Data"
         /\ ~loc.encryption_flag.some
         /\ ~hist.decryptCalled
         /\ fs = hist.fsStart
    /\ (opts.cmd = "encode" /\ loc.payload # <<>>) =>
         LET name == opts.file_path.name
         IN  /\ 1 <= Len(name) /\ Len(name) <= 255
             /\ loc.payload[1] = Len(name)
             /\ SubSeq(loc.payload, 2, 1 + Len(name)) = name
    /\ (opts.cmd = "encode" /\ pc = "encoded" /\ Len(opts.file_path.name) > 255) =>
         (~result.ok /\ result.kind = "Validation" /\ loc.payload = <<>>)

\* a name of 255 bytes went through encode and decode
C15_Witness ==
    /\ DecodeEnded
    /\ result.ok
    /\ Len(result.val.file_name) = 255
    /\ hist.enc.ok

\* a name with a byte that is not UTF-8, behind it flag 1, no password given
C15_WitnessMalformed ==
    /\ DecodeEnded
    /\ loc.decompressed_data = <<1, 255, 1, 65>>
    /\ ~opts.password.some

C15_WitnessTooLong ==
    /\ opts.cmd = "encode"
    /\ pc = "encoded"
    /\ Len(opts.file_path.name) = 256

====
